---- MODULE Spec2Model ----
(***************************************************************************)
(* Room membership and capacity state machine of the game server           *)
(* (app/model.py): create_room, join_room, wait_room and room_list, each   *)
(* run inside one `with engine.begin() as conn:` transaction against the   *)
(* tables `room` and `room_member`.                                        *)
(*                                                                         *)
(* Storage model.  The SQL is MySQL (backquoted identifiers, lastrowid)    *)
(* and the engine is used with its default settings, i.e. InnoDB           *)
(* REPEATABLE READ:                                                        *)
(*   - a plain SELECT is a non-locking consistent read; the first one of   *)
(*     a transaction fixes the read view, later ones see that view plus    *)
(*     the transaction's own writes;                                       *)
(*   - INSERT / UPDATE are private to the transaction until it commits;    *)
(*   - UPDATE takes the exclusive lock of the row until commit/rollback;   *)
(*   - leaving the `with` block by an exception rolls everything back;     *)
(*   - AUTO_INCREMENT values are not given back by a rollback.             *)
(* The committed tables are `rooms` and `members`; tx[p] is the private    *)
(* state of the request running as process p.                              *)
(***************************************************************************)
EXTENDS Integers, FiniteSets, Sequences, Bags, TLC

\* ---- bounds of the model
NumProcs == 2     \* requests in flight at the same time
NumUsers == 2     \* rows of table `user`
MaxRooms == 2     \* AUTO_INCREMENT values handed out for `room`
MaxLiveId == 2    \* song identifiers callers supply
MaxRows == 5      \* membership rows, committed or pending
MaxDifficulty == 1 \* callers choose among the first MaxDifficulty difficulties
MaxClosed == 1    \* rooms whose status is moved away from Waiting

Procs == 1..NumProcs
Users == 1..NumUsers
RoomIds == 1..MaxRooms
RoomIdArgs == 1..(MaxRooms + 1)
LiveIds == 1..MaxLiveId

\* ---- enumerations of model.py
Waiting == 1
LiveStart == 2
Dissolution == 3
WaitRoomStatus == {Waiting, LiveStart, Dissolution}

normal == 1
hard == 2
LiveDifficulty == {normal, hard}
Difficulties == {d \in LiveDifficulty : d <= MaxDifficulty}

\* the live_id with which room_list selects all rooms
AnyLive == 0

JoinRoomResult == [Ok |-> 1, RoomFull |-> 2, Disbanded |-> 3, OtherError |-> 4]

\* ---- column defaults of table `room` (the INSERT of _create_room names
\* neither joined_user_count nor max_user_count)
DefaultJoinedUserCount == 0
DefaultMaxUserCount == 4

\* the two ways a call can leave by an exception
AttributeError == "AttributeError"
StorageFailure == "StorageFailure"

VARIABLES rooms, members, lastrowid, tx

vars == <<rooms, members, lastrowid, tx>>

\* class RoomInfo
RoomInfo(room_id, live_id, status, joined, max, created) ==
  [room_id |-> room_id, live_id |-> live_id, status |-> status,
   joined_user_count |-> joined, max_user_count |-> max,
   created_user_id |-> created]

\* a row of table `room_member`
MemberRow(room_id, user_id, difficulty, is_host) ==
  [room_id |-> room_id, user_id |-> user_id,
   select_difficulty |-> difficulty, is_host |-> is_host]

\* Python's None where a RoomInfo is expected, a pending row that is not
\* there, and a pending counter that is not there
None == RoomInfo(0, 0, 0, 0, 0, 0)
NoRow == MemberRow(0, 0, 0, FALSE)
NoCount == 0 - 1

\* how a call ended
NoResult == [kind |-> "none", value |-> 0]
Returned(v) == [kind |-> "return", value |-> v]
Raised(e) == [kind |-> "raise", value |-> e]

\* the private state of a request that is not running
Idle ==
  [op |-> "idle", pc |-> "idle", user |-> 0, room_id |-> 0, arg |-> 0,
   view |-> None, ins_room |-> None, ins_member |-> NoRow,
   upd_count |-> NoCount, result |-> NoResult]

\* the private state of a create_room or join_room that has left its `with`
\* block
Done(t, result) ==
  [Idle EXCEPT !.op = t.op, !.pc = "done", !.room_id = t.room_id,
     !.result = result]

\* the shape of the state: the table `room` keyed by room_id, the table
\* `room_member` as a bag of rows, the AUTO_INCREMENT counter of `room`, and
\* the calls in flight
TypeOK ==
  /\ DOMAIN rooms \subseteq RoomIds
  /\ \A r \in DOMAIN rooms :
       /\ rooms[r].room_id = r
       /\ rooms[r].live_id \in LiveIds
       /\ rooms[r].status \in WaitRoomStatus
       /\ rooms[r].joined_user_count \in Nat
       /\ rooms[r].max_user_count = DefaultMaxUserCount
       /\ rooms[r].created_user_id \in Users
  /\ IsABag(members)
  /\ \A m \in BagToSet(members) :
       /\ m.room_id \in RoomIds
       /\ m.user_id \in Users
       /\ m.select_difficulty \in LiveDifficulty
       /\ m.is_host \in BOOLEAN
  /\ lastrowid \in 0..MaxRooms
  /\ \A p \in Procs :
       /\ tx[p].op \in {"idle", "create_room", "join_room", "wait_room", "room_list"}
       /\ tx[p].pc \in {"idle", "join", "commit", "done"}
       /\ tx[p].result.kind \in {"none", "return", "raise"}

Init ==
  /\ rooms = << >>
  /\ members = EmptyBag
  /\ lastrowid = 0
  /\ tx = [p \in Procs |-> Idle]

\* ---- reads

\* The rows of `room_member` of one room, as a bag.
RowsOfRoom(bag, room_id) ==
  LET S == {m \in BagToSet(bag) : m.room_id = room_id}
  IN [m \in S |-> bag[m]]

\* |rows of room_member with this room_id|
CountRows(bag, room_id) == BagCardinality(RowsOfRoom(bag, room_id))

\* get_room_info_from_id on the committed table: result.one() raises for no
\* row, the except clause returns None.
get_room_info_from_id(room_id) ==
  IF room_id \in DOMAIN rooms THEN rooms[room_id] ELSE None

\* get_room_info_from_id as transaction p sees it after its first read: its
\* own inserted room, else the row of its read view.
TxRoomInfo(p) ==
  IF tx[p].ins_room # None /\ tx[p].ins_room.room_id = tx[p].room_id
  THEN tx[p].ins_room
  ELSE tx[p].view

\* a row lock that the SELECT of the call takes already, so that two calls in
\* flight on one room each find it in the other's hands
RowLockedFromRead(p, room_id) ==
  \E q \in Procs \ {p} :
    /\ tx[q].pc \in {"join", "commit"}
    /\ tx[q].room_id = room_id

\* the row lock of room_id is held by a transaction other than p
RowLocked(p, room_id) ==
  \E q \in Procs \ {p} :
    /\ tx[q].pc = "commit"
    /\ tx[q].room_id = room_id
    /\ tx[q].upd_count # NoCount

\* membership rows in the tables, pending, or about to be inserted
RowsInUse ==
  BagCardinality(members)
    + Cardinality({p \in Procs : tx[p].pc \in {"join", "commit"}})

\* ---- the transaction: commit and rollback of `with engine.begin()`

\* a commit that makes the inserted room visible but not the counter update
CommitRoomsWithoutCount(t) ==
  LET ids == IF t.ins_room # None
             THEN DOMAIN rooms \cup {t.ins_room.room_id}
             ELSE DOMAIN rooms
  IN  [r \in ids |-> IF r \in DOMAIN rooms THEN rooms[r] ELSE t.ins_room]

\* a commit that writes the row of its read view back whole, with the new
\* counter
CommitRoomsWholeRow(t) ==
  LET ids == IF t.ins_room # None
             THEN DOMAIN rooms \cup {t.ins_room.room_id}
             ELSE DOMAIN rooms
      base == [r \in ids |-> IF r \in DOMAIN rooms THEN rooms[r] ELSE t.ins_room]
  IN  IF t.upd_count # NoCount /\ t.room_id \in ids
      THEN [base EXCEPT ![t.room_id] =
             IF t.ins_room # None
             THEN [t.ins_room EXCEPT !.joined_user_count = t.upd_count]
             ELSE [t.view EXCEPT !.joined_user_count = t.upd_count]]
      ELSE base

\* a commit whose UPDATE has no WHERE clause
CommitRoomsAllRows(t) ==
  LET ids == IF t.ins_room # None
             THEN DOMAIN rooms \cup {t.ins_room.room_id}
             ELSE DOMAIN rooms
      base == [r \in ids |-> IF r \in DOMAIN rooms THEN rooms[r] ELSE t.ins_room]
  IN  IF t.upd_count # NoCount
      THEN [r \in ids |-> [base[r] EXCEPT !.joined_user_count = t.upd_count]]
      ELSE base

\* the table `room` with the writes of transaction t applied
CommitRooms(t) ==
  LET ids == IF t.ins_room # None
             THEN DOMAIN rooms \cup {t.ins_room.room_id}
             ELSE DOMAIN rooms
      base == [r \in ids |-> IF r \in DOMAIN rooms THEN rooms[r] ELSE t.ins_room]
  IN  IF t.upd_count # NoCount /\ t.room_id \in ids
      THEN [base EXCEPT ![t.room_id].joined_user_count = t.upd_count]
      ELSE base

\* the table `room_member` with the writes of transaction t applied
CommitMembers(t) ==
  IF t.ins_member # NoRow THEN members (+) SetToBag({t.ins_member}) ELSE members

\* a rollback that leaves the inserted membership row behind
RollbackMembersKeepsRow(t) ==
  IF t.ins_member # NoRow THEN members (+) SetToBag({t.ins_member}) ELSE members

\* the tables after a rollback of transaction t: none of its writes
RollbackRooms(t) == rooms
RollbackMembers(t) == members

\* ---- create_room

\* _create_room: INSERT INTO room (live_id, status, created_user_id); the
\* call goes on to _join_room with result.lastrowid
create_room(p, user, live_id, difficulty) ==
  /\ tx[p].pc = "idle"
  /\ lastrowid < MaxRooms
  /\ RowsInUse < MaxRows
  /\ lastrowid' = lastrowid + 1
  /\ tx' = [tx EXCEPT ![p] =
       [Idle EXCEPT !.op = "create_room", !.pc = "join", !.user = user,
          !.room_id = lastrowid + 1, !.arg = difficulty,
          !.ins_room = RoomInfo(lastrowid + 1, live_id, Waiting,
                                DefaultJoinedUserCount, DefaultMaxUserCount, user)]]
  /\ UNCHANGED <<rooms, members>>

\* ---- join_room

\* the is_host column _join_room writes
IsHost(room_info, user) == room_info.created_user_id = user

\* the chain with <= for < in its first comparison
JoinBranchOffByOne(room) ==
  IF room = None THEN Raised(AttributeError)
  ELSE IF room.joined_user_count <= room.max_user_count
    THEN Returned(JoinRoomResult.Ok)
  ELSE Returned(JoinRoomResult.RoomFull)

\* a chain that tests `room is None` before it reads the counter
JoinBranchNoneFirst(room) ==
  IF room = None THEN Returned(JoinRoomResult.Disbanded)
  ELSE IF room.joined_user_count < room.max_user_count
    THEN Returned(JoinRoomResult.Ok)
  ELSE Returned(JoinRoomResult.RoomFull)

\* the if / elif chain of join_room on the row it read; room.joined_user_count
\* is evaluated first, so None never reaches `elif room is None`
JoinBranch(room) ==
  IF room = None THEN Raised(AttributeError)
  ELSE IF room.joined_user_count < room.max_user_count
    THEN Returned(JoinRoomResult.Ok)
  ELSE IF room.joined_user_count >= room.max_user_count
    THEN Returned(JoinRoomResult.RoomFull)
  ELSE IF room = None
    THEN Returned(JoinRoomResult.Disbanded)
  ELSE Returned(JoinRoomResult.OtherError)

\* a join_room that inserts its membership row before it tests the capacity
join_roomInsertsFirst(p, user, room_id, difficulty) ==
  /\ tx[p].pc = "idle"
  /\ RowsInUse < MaxRows
  /\ LET room == get_room_info_from_id(room_id)
         t == [Idle EXCEPT !.op = "join_room", !.user = user,
                 !.room_id = room_id, !.arg = difficulty]
     IN  /\ tx' = [tx EXCEPT ![p] =
               IF JoinBranch(room) = Returned(JoinRoomResult.Ok)
               THEN [t EXCEPT !.pc = "join", !.view = room]
               ELSE Done(t, JoinBranch(room))]
         /\ members' =
               IF JoinBranch(room) = Returned(JoinRoomResult.RoomFull)
               THEN members (+) SetToBag({MemberRow(room_id, user, difficulty,
                                                    IsHost(room, user))})
               ELSE members
  /\ UNCHANGED <<rooms, lastrowid>>

\* join_room up to the branch: the SELECT of get_room_info_from_id fixes the
\* read view; RoomFull returns (and commits nothing), None raises, otherwise
\* the call goes on to _join_room
join_room(p, user, room_id, difficulty) ==
  /\ tx[p].pc = "idle"
  /\ RowsInUse < MaxRows
  /\ LET room == get_room_info_from_id(room_id)
         t == [Idle EXCEPT !.op = "join_room", !.user = user,
                 !.room_id = room_id, !.arg = difficulty]
     IN  tx' = [tx EXCEPT ![p] =
           IF JoinBranch(room) = Returned(JoinRoomResult.Ok)
           THEN [t EXCEPT !.pc = "join", !.view = room]
           ELSE Done(t, JoinBranch(room))]
  /\ UNCHANGED <<rooms, members, lastrowid>>

\* the counter written back without the increment
NewJoinedUserCountSame(room_info) == room_info.joined_user_count

\* the value _join_room writes to joined_user_count
NewJoinedUserCount(room_info) == room_info.joined_user_count + 1

\* _join_room: re-read the room, INSERT INTO room_member, UPDATE room SET
\* joined_user_count = the count read + 1.  Both writes stay private to the
\* transaction; the UPDATE waits for the lock of the row.
_join_room(p) ==
  /\ tx[p].pc = "join"
  /\ ~RowLocked(p, tx[p].room_id)
  /\ LET room_info == TxRoomInfo(p)
     IN  tx' = [tx EXCEPT ![p] =
           IF room_info = None
           THEN Done(tx[p], Raised(AttributeError))
           ELSE [tx[p] EXCEPT !.pc = "commit",
                   !.ins_member = MemberRow(tx[p].room_id, tx[p].user, tx[p].arg,
                                            IsHost(room_info, tx[p].user)),
                   !.upd_count = NewJoinedUserCount(room_info)]]
  /\ UNCHANGED <<rooms, members, lastrowid>>

\* the value a committed call returns: create_room its room_id, join_room Ok
ReturnValue(t) ==
  IF t.op = "create_room" THEN t.room_id ELSE JoinRoomResult.Ok

\* leaving the `with` block normally: the writes become visible together
Commit(p) ==
  /\ tx[p].pc = "commit"
  /\ rooms' = CommitRooms(tx[p])
  /\ members' = CommitMembers(tx[p])
  /\ tx' = [tx EXCEPT ![p] = Done(tx[p], Returned(ReturnValue(tx[p])))]
  /\ UNCHANGED lastrowid

\* a statement or the commit of create_room / join_room fails: the exception
\* leaves the `with` block, which rolls the transaction back
Fail(p) ==
  /\ tx[p].pc \in {"join", "commit"}
  /\ rooms' = RollbackRooms(tx[p])
  /\ members' = RollbackMembers(tx[p])
  /\ tx' = [tx EXCEPT ![p] = Done(tx[p], Raised(StorageFailure))]
  /\ UNCHANGED lastrowid

\* the caller has taken the result; the process serves the next request
Return(p) ==
  /\ tx[p].pc = "done"
  /\ tx' = [tx EXCEPT ![p] = Idle]
  /\ UNCHANGED <<rooms, members, lastrowid>>

\* ---- room_list

\* _room_list: every column of the rooms with that live_id, or of all rooms
\* for live_id 0
_room_list(live_id) ==
  IF live_id # AnyLive
  THEN {rooms[r] : r \in {x \in DOMAIN rooms : rooms[x].live_id = live_id}}
  ELSE {rooms[r] : r \in DOMAIN rooms}

\* room_list: one SELECT in its own transaction
room_list(p, live_id) ==
  /\ tx[p].pc = "idle"
  /\ tx' = [tx EXCEPT ![p] =
       [Idle EXCEPT !.op = "room_list", !.pc = "done", !.arg = live_id,
          !.result = Returned(_room_list(live_id))]]
  /\ UNCHANGED <<rooms, members, lastrowid>>

\* ---- wait_room

\* class RoomUser without name and leader_card_id, which come from the
\* table `user`
RoomUser(row, user_id) ==
  [user_id |-> row.user_id, select_difficulty |-> row.select_difficulty,
   is_me |-> (user_id = row.user_id), is_host |-> row.is_host]

\* Result.all(): the rows the cursor has not handed out yet; the cursor is
\* exhausted afterwards, and a further all() returns the empty list
ResultAll(cursor) == [rows |-> cursor, cursor |-> EmptyBag]

\* the list comprehension of _get_joined_users over the fetched rows
RoomUsers(fetched, user_id) ==
  LET views == {RoomUser(m, user_id) : m \in BagToSet(fetched)}
  IN  [v \in views |->
        BagCardinality([m \in {x \in BagToSet(fetched) : RoomUser(x, user_id) = v}
                          |-> fetched[m]])]

\* _get_joined_users: SELECT ... FROM room_member JOIN user WHERE room_id;
\* print(result.all()) fetches the rows, the list comprehension then runs
\* over a second result.all() of the same result
_get_joined_users(room_id, user_id) ==
  LET result == RowsOfRoom(members, room_id)
      printed == ResultAll(result)
      again == ResultAll(printed.cursor)
  IN  RoomUsers(again.rows, user_id)

\* the value of wait_room
WaitResult(room, room_id, user_id) ==
  IF room = None
  THEN [status |-> None, room_user_list |-> None]
  ELSE [status |-> room.status,
        room_user_list |-> _get_joined_users(room_id, user_id)]

\* a wait_room that starts the live of the room it polls
wait_roomStartsLive(p, user, room_id) ==
  /\ tx[p].pc = "idle"
  /\ tx' = [tx EXCEPT ![p] =
       [Idle EXCEPT !.op = "wait_room", !.pc = "done", !.user = user,
          !.room_id = room_id,
          !.result = Returned(WaitResult(get_room_info_from_id(room_id),
                                         room_id, user))]]
  /\ rooms' = [r \in DOMAIN rooms |->
                IF r = room_id /\ rooms[r].status = Waiting
                THEN [rooms[r] EXCEPT !.status = LiveStart] ELSE rooms[r]]
  /\ UNCHANGED <<members, lastrowid>>

\* a wait_room that reads room.status before it tests room for None
wait_roomNoneUntested(p, user, room_id) ==
  /\ tx[p].pc = "idle"
  /\ tx' = [tx EXCEPT ![p] =
       [Idle EXCEPT !.op = "wait_room", !.pc = "done", !.user = user,
          !.room_id = room_id,
          !.result = IF get_room_info_from_id(room_id) = None
                     THEN Raised(AttributeError)
                     ELSE Returned(WaitResult(get_room_info_from_id(room_id),
                                              room_id, user))]]
  /\ UNCHANGED <<rooms, members, lastrowid>>

\* wait_room: both SELECTs read the same read view
wait_room(p, user, room_id) ==
  /\ tx[p].pc = "idle"
  /\ tx' = [tx EXCEPT ![p] =
       [Idle EXCEPT !.op = "wait_room", !.pc = "done", !.user = user,
          !.room_id = room_id,
          !.result = Returned(WaitResult(get_room_info_from_id(room_id),
                                         room_id, user))]]
  /\ UNCHANGED <<rooms, members, lastrowid>>

\* ---- the transitions of a room's status, which no code of model.py makes

\* Waiting -> LiveStart, Waiting | LiveStart -> Dissolution
StatusStep(from, to) ==
  \/ from = Waiting /\ to \in {LiveStart, Dissolution}
  \/ from = LiveStart /\ to = Dissolution

\* the rooms that have left Waiting
Closed == {r \in DOMAIN rooms : rooms[r].status # Waiting}

SetStatus(room_id, status) ==
  /\ room_id \in DOMAIN rooms
  /\ Cardinality(Closed \cup {room_id}) <= MaxClosed
  /\ StatusStep(rooms[room_id].status, status)
  /\ rooms' = [rooms EXCEPT ![room_id].status = status]
  /\ UNCHANGED <<members, lastrowid, tx>>

\* Handing a result to the caller touches nothing shared, so a call that has
\* ended is taken to hand its result back before anything else happens.
Ready == \A p \in Procs : tx[p].pc # "done"

Next ==
  \/ \E p \in Procs, u \in Users, l \in LiveIds, d \in Difficulties :
       Ready /\ create_room(p, u, l, d)
  \/ \E p \in Procs, u \in Users, r \in RoomIdArgs, d \in Difficulties :
       Ready /\ join_room(p, u, r, d)
  \/ \E p \in Procs : Ready /\ _join_room(p)
  \/ \E p \in Procs : Ready /\ Commit(p)
  \/ \E p \in Procs : Ready /\ Fail(p)
  \/ \E p \in Procs, l \in LiveIds \cup {AnyLive} : Ready /\ room_list(p, l)
  \/ \E p \in Procs, u \in Users, r \in RoomIdArgs : Ready /\ wait_room(p, u, r)
  \/ \E p \in Procs : Return(p)

\* the calls of model.py against a database nobody else writes
Spec == Init /\ [][Next]_vars

NextEnv ==
  \/ \E p \in Procs, u \in Users, l \in LiveIds, d \in Difficulties :
       Ready /\ create_room(p, u, l, d)
  \/ \E p \in Procs, u \in Users, r \in RoomIdArgs, d \in Difficulties :
       Ready /\ join_room(p, u, r, d)
  \/ \E p \in Procs : Ready /\ _join_room(p)
  \/ \E p \in Procs : Ready /\ Commit(p)
  \/ \E p \in Procs : Ready /\ Fail(p)
  \/ \E p \in Procs, l \in LiveIds \cup {AnyLive} : Ready /\ room_list(p, l)
  \/ \E p \in Procs, u \in Users, r \in RoomIdArgs : Ready /\ wait_room(p, u, r)
  \/ \E p \in Procs : Return(p)
  \/ \E r \in RoomIds, s \in WaitRoomStatus : Ready /\ SetStatus(r, s)

\* the same with the status of rooms moved from outside
SpecEnv == Init /\ [][NextEnv]_vars

\* non-overlapping calls: a call starts and runs only while no other call is
\* in flight
Quiet(p) == \A q \in Procs \ {p} : tx[q].pc = "idle"

NextSeq ==
  \/ \E p \in Procs, u \in Users, l \in LiveIds, d \in Difficulties :
       Quiet(p) /\ create_room(p, u, l, d)
  \/ \E p \in Procs, u \in Users, r \in RoomIdArgs, d \in Difficulties :
       Quiet(p) /\ join_room(p, u, r, d)
  \/ \E p \in Procs : Quiet(p) /\ _join_room(p)
  \/ \E p \in Procs : Quiet(p) /\ Commit(p)
  \/ \E p \in Procs : Quiet(p) /\ Fail(p)
  \/ \E p \in Procs, l \in LiveIds \cup {AnyLive} : Quiet(p) /\ room_list(p, l)
  \/ \E p \in Procs, u \in Users, r \in RoomIdArgs : Quiet(p) /\ wait_room(p, u, r)
  \/ \E p \in Procs : Return(p)

SpecSeq == Init /\ [][NextSeq]_vars

\* every handler runs in a thread of its own that keeps running: a finished
\* call hands its result back, a transaction that can commit does, and a
\* statement waiting for a row lock is queued for it and gets it once the
\* holders before it have ended
Fairness ==
  \A p \in Procs :
    /\ WF_vars(Return(p))
    /\ SF_vars(Ready /\ Commit(p))
    /\ SF_vars(Ready /\ _join_room(p))

SpecFair == Spec /\ Fairness

\* ---------------------------------------------------------------------
\* Properties
\* ---------------------------------------------------------------------

\* process p has ended a call of op by returning v
HasReturned(t, op, v) ==
  t.pc = "done" /\ t.op = op /\ t.result.kind = "return" /\ t.result.value = v

\* process p has ended a call of op by raising e
HasRaised(t, op, e) ==
  t.pc = "done" /\ t.op = op /\ t.result.kind = "raise" /\ t.result.value = e

\* this step is the call of join_room by p
JoinCalled(p) == tx[p].pc = "idle" /\ tx'[p].op = "join_room"

\* this step is the commit of p's transaction
Committed(p) == tx[p].pc = "commit" /\ tx'[p].result.kind = "return"

\* the rows of a room with is_host = true
HostRows(room_id) ==
  LET S == {m \in BagToSet(members) : m.room_id = room_id /\ m.is_host}
  IN  [m \in S |-> members[m]]

\* C1: the members admitted to a room (the creator and every join that
\* returned Ok, i.e. its room_member rows) never exceed max_user_count,
\* whatever the interleaving of join_room calls.
C1_Capacity ==
  \A r \in DOMAIN rooms : CountRows(members, r) <= rooms[r].max_user_count

\* C2: in every committed state each room's joined_user_count equals the
\* number of room_member rows with its room_id.
C2_CountEqualsRows ==
  \A r \in DOMAIN rooms : rooms[r].joined_user_count = CountRows(members, r)

\* C3: every room has exactly one room_member row with is_host = true, and
\* that row belongs to created_user_id.
C3_SingleHost ==
  \A r \in DOMAIN rooms :
    /\ BagCardinality(HostRows(r)) = 1
    /\ \A m \in BagToSet(HostRows(r)) : m.user_id = rooms[r].created_user_id

\* C4: a join_room called on a room whose status is not Waiting returns
\* Disbanded and admits nobody, whatever joined_user_count is.
C4_NoJoinUnlessWaiting ==
  [][\A p \in Procs :
       (/\ JoinCalled(p)
        /\ tx'[p].room_id \in DOMAIN rooms
        /\ rooms[tx'[p].room_id].status # Waiting)
       => HasReturned(tx'[p], "join_room", JoinRoomResult.Disbanded)]_vars

\* C5: join_room with a room_id no room has returns Disbanded (it does not
\* raise) and leaves both tables unchanged.
C5_JoinMissingRoom ==
  [][\A p \in Procs :
       (JoinCalled(p) /\ tx'[p].room_id \notin DOMAIN rooms)
       => /\ HasReturned(tx'[p], "join_room", JoinRoomResult.Disbanded)
          /\ UNCHANGED <<rooms, members>>]_vars

\* C6: every room satisfies 0 <= joined_user_count <= max_user_count in
\* every reachable state, under any interleaving of create_room and join_room.
C6_CountInRange ==
  \A r \in DOMAIN rooms :
    /\ 0 <= rooms[r].joined_user_count
    /\ rooms[r].joined_user_count <= rooms[r].max_user_count

\* a room whose counter stands at the capacity while concurrent joins have
\* left it more rows than that: the counter is in range all the same
C6_Witness ==
  \E r \in DOMAIN rooms :
    /\ rooms[r].joined_user_count = rooms[r].max_user_count
    /\ CountRows(members, r) > rooms[r].max_user_count

\* what C7 says of one step of a run without overlapping calls
C7_Step ==
  \A p \in Procs :
    LET r == tx[p].room_id
        r1 == tx'[p].room_id
    IN
    \* create_room by U has committed: the room is new, Waiting, counts 1 and
    \* has U as its only member, who is host
    /\ (Committed(p) /\ tx[p].op = "create_room")
       => /\ r \notin DOMAIN rooms
          /\ tx'[p].result.value = r
          /\ rooms'[r].status = Waiting
          /\ rooms'[r].joined_user_count = 1
          /\ rooms'[r].created_user_id = tx[p].user
          /\ RowsOfRoom(members', r)
               = SetToBag({MemberRow(r, tx[p].user, tx[p].arg, TRUE)})
    \* join_room is called on a room below its capacity: it goes on to join
    /\ (/\ JoinCalled(p) /\ r1 \in DOMAIN rooms
        /\ rooms[r1].joined_user_count < rooms[r1].max_user_count)
       => tx'[p].pc = "join"
    \* join_room is called on a room at its capacity: RoomFull
    /\ (/\ JoinCalled(p) /\ r1 \in DOMAIN rooms
        /\ rooms[r1].joined_user_count = rooms[r1].max_user_count)
       => /\ HasReturned(tx'[p], "join_room", JoinRoomResult.RoomFull)
          /\ UNCHANGED <<rooms, members>>
    \* join_room has committed: Ok, one more row and the counter one higher
    /\ (Committed(p) /\ tx[p].op = "join_room")
       => /\ tx'[p].result.value = JoinRoomResult.Ok
          /\ rooms[r].joined_user_count < rooms[r].max_user_count
          /\ rooms'[r].joined_user_count = rooms[r].joined_user_count + 1
          /\ CountRows(members', r) = CountRows(members, r) + 1
          /\ CountRows(members', r) = rooms'[r].joined_user_count

\* C7: without overlapping calls, create_room by U leaves the new room
\* Waiting with joined_user_count = 1 and U as its single, host member; a
\* join_room on it returns Ok and raises joined_user_count by exactly 1
\* while joined_user_count < max_user_count, and returns RoomFull once
\* joined_user_count = max_user_count.
C7_Sequential == [][C7_Step]_vars

\* a join_room was answered RoomFull by a room of capacity 4 that holds its
\* creator and three joined members
C7_Witness ==
  \E p \in Procs :
    /\ HasReturned(tx[p], "join_room", JoinRoomResult.RoomFull)
    /\ tx[p].room_id \in DOMAIN rooms
    /\ rooms[tx[p].room_id].max_user_count = 4
    /\ rooms[tx[p].room_id].joined_user_count = 4
    /\ CountRows(members, tx[p].room_id) = 4
    /\ BagCardinality(HostRows(tx[p].room_id)) = 1

\* this step is the call of wait_room by p
WaitCalled(p) == tx[p].pc = "idle" /\ tx'[p].op = "wait_room"

\* C8: wait_room on an existing room returns the room's status and one member
\* view per room_member row of the room, with is_me true exactly for the
\* caller's rows and is_host, select_difficulty as stored.
C8_WaitRoomViews ==
  [][\A p \in Procs :
       (WaitCalled(p) /\ tx'[p].room_id \in DOMAIN rooms)
       => /\ tx'[p].result.value.status = rooms[tx'[p].room_id].status
          /\ tx'[p].result.value.room_user_list
               = RoomUsers(RowsOfRoom(members, tx'[p].room_id), tx'[p].user)]_vars

\* this step is the call of room_list by p
ListCalled(p) == tx[p].pc = "idle" /\ tx'[p].op = "room_list"

\* C9: room_list(live_id) with live_id # 0 returns exactly the Waiting rooms
\* with that live_id, with their current counters; room_list(0) returns
\* all rooms.
C9_RoomList ==
  [][\A p \in Procs :
       ListCalled(p)
       => tx'[p].result.value =
            IF tx'[p].arg # AnyLive
            THEN {rooms[r] : r \in {x \in DOMAIN rooms :
                                      /\ rooms[x].live_id = tx'[p].arg
                                      /\ rooms[x].status = Waiting}}
            ELSE {rooms[r] : r \in DOMAIN rooms}]_vars

\* no room without the membership row of its host, no membership row of a
\* room that does not exist
NoPartialWrites ==
  /\ \A r \in DOMAIN rooms :
       \E m \in BagToSet(members) :
         m.room_id = r /\ m.user_id = rooms[r].created_user_id /\ m.is_host
  /\ \A m \in BagToSet(members) : m.room_id \in DOMAIN rooms

\* this step is a storage failure in p's create_room or join_room
Failed(p) ==
  /\ tx[p].pc \in {"join", "commit"}
  /\ tx'[p].result.kind = "raise"
  /\ tx'[p].result.value = StorageFailure

\* C10: a storage failure in create_room or join_room (after the room
\* insert, after the membership insert and counter update, at the commit)
\* leaves the committed tables exactly as they were, and no committed state
\* holds a room without its host row or a row of a room that is not there;
\* the two writes of _join_room are committed together or not at all.
C10_AllOrNothing ==
  [][/\ \A p \in Procs : Failed(p) => UNCHANGED <<rooms, members>>
     /\ \A p \in Procs :
          Committed(p) =>
            /\ CountRows(members', tx[p].room_id)
                 = CountRows(members, tx[p].room_id) + 1
            /\ rooms'[tx[p].room_id].joined_user_count = tx[p].upd_count
     /\ NoPartialWrites']_vars

\* a create_room that had inserted its room failed, and neither the room nor
\* a row of it is in the tables
C10_Witness ==
  \E p \in Procs :
    /\ HasRaised(tx[p], "create_room", StorageFailure)
    /\ tx[p].room_id \notin DOMAIN rooms
    /\ tx[p].room_id <= lastrowid
    /\ CountRows(members, tx[p].room_id) = 0

\* C11: wait_room called twice by the same user on the same room with no
\* commit in between returns identical results, and wait_room changes no
\* room or membership row: the value a call returns is the value a second
\* call made in the state the first one leaves would return.
C11_WaitRoomIdempotent ==
  [][\A p \in Procs, u \in Users, r \in RoomIdArgs :
       (WaitCalled(p) /\ tx'[p].user = u /\ tx'[p].room_id = r)
       => /\ UNCHANGED <<rooms, members, lastrowid>>
          /\ tx'[p].result.kind = "return"
          /\ tx'[p].result.value = WaitResult(get_room_info_from_id(r), r, u)']_vars

\* a wait_room has answered for a room with its creator and a joined member
C11_Witness ==
  \E p \in Procs :
    /\ tx[p].pc = "done" /\ tx[p].op = "wait_room"
    /\ tx[p].room_id \in DOMAIN rooms
    /\ tx[p].result.value.status = Waiting
    /\ CountRows(members, tx[p].room_id) >= 2

\* C12: wait_room with a room_id no room has returns (None, None) as a value,
\* without raising and without changing a row.
C12_WaitMissingRoom ==
  [][\A p \in Procs :
       (WaitCalled(p) /\ tx'[p].room_id \notin DOMAIN rooms)
       => /\ tx'[p].result.kind = "return"
          /\ tx'[p].result.value = [status |-> None, room_user_list |-> None]
          /\ UNCHANGED <<rooms, members>>]_vars

\* a wait_room has answered for a room_id that no room has, while rooms exist
C12_Witness ==
  \E p \in Procs :
    /\ tx[p].pc = "done" /\ tx[p].op = "wait_room"
    /\ tx[p].room_id \notin DOMAIN rooms
    /\ DOMAIN rooms # {}

\* what C13 says of one step
C13_Step ==
  \* the row and the counter write of a join become visible in one step
  /\ \A r \in DOMAIN rooms' :
       (\/ r \notin DOMAIN rooms
        \/ CountRows(members', r) # CountRows(members, r)
        \/ rooms'[r].joined_user_count # rooms[r].joined_user_count)
       => \E p \in Procs :
            /\ Committed(p) /\ tx[p].room_id = r
            /\ members' = members (+) SetToBag({tx[p].ins_member})
            /\ rooms'[r].joined_user_count = tx[p].upd_count
  \* room_list never lists a room at the counter of a create_room under way
  /\ \A p \in Procs :
       ListCalled(p)
       => \A info \in tx'[p].result.value :
            /\ info.joined_user_count >= 1
            /\ CountRows(members, info.room_id) >= 1
  \* wait_room finds a room only together with the row of its host
  /\ \A p \in Procs :
       (WaitCalled(p) /\ tx'[p].room_id \in DOMAIN rooms)
       => /\ rooms[tx'[p].room_id].joined_user_count >= 1
          /\ CountRows(members, tx'[p].room_id) >= 1

\* C13: a wait_room or room_list that runs while a join_room or create_room
\* is under way never observes it half-applied: the membership insert and
\* the counter update become visible to readers together.
C13_NoHalfAppliedRead == [][C13_Step]_vars

\* a room_list has answered while a join_room holds its inserted row and its
\* counter update uncommitted
C13_Witness ==
  \E p, q \in Procs :
    /\ tx[p].pc = "done" /\ tx[p].op = "room_list"
    /\ tx[p].result.value # {}
    /\ tx[q].pc = "commit" /\ tx[q].op = "join_room"
    /\ tx[q].ins_member # NoRow

\* the rows of one user in one room
RowsOfUser(room_id, user_id) ==
  LET S == {m \in BagToSet(members) : m.room_id = room_id /\ m.user_id = user_id}
  IN  [m \in S |-> members[m]]

\* C14: there is at most one room_member row per (room_id, user_id): a user
\* who is a member of a room (its creator included) gains no second row by
\* calling join_room on it again.
C14_UniqueMembership ==
  \A r \in DOMAIN rooms, u \in Users : BagCardinality(RowsOfUser(r, u)) <= 1

\* C15: a join_room that returns RoomFull leaves the state unchanged: no row
\* is inserted, no counter changes, and the call keeps no pending write.
C15_RoomFullNoEffect ==
  [][\A p \in Procs :
       (JoinCalled(p) /\ tx'[p].pc = "done"
          /\ tx'[p].result.kind = "return"
          /\ tx'[p].result.value = JoinRoomResult.RoomFull)
       => /\ UNCHANGED <<rooms, members, lastrowid>>
          /\ tx'[p].ins_member = NoRow
          /\ tx'[p].upd_count = NoCount]_vars

\* a join_room was answered RoomFull by a room its creator had joined again
C15_Witness ==
  \E p \in Procs :
    /\ HasReturned(tx[p], "join_room", JoinRoomResult.RoomFull)
    /\ rooms[tx[p].room_id].joined_user_count
         = rooms[tx[p].room_id].max_user_count
    /\ BagCardinality(HostRows(tx[p].room_id)) >= 2

\* C16: live_id, max_user_count and created_user_id of a room never change
\* once create_room has set them, no room disappears, and no step of
\* join_room, wait_room or room_list changes a room's status.
C16_RoomFrame ==
  [][\A r \in DOMAIN rooms :
       /\ r \in DOMAIN rooms'
       /\ rooms'[r].live_id = rooms[r].live_id
       /\ rooms'[r].max_user_count = rooms[r].max_user_count
       /\ rooms'[r].created_user_id = rooms[r].created_user_id
       /\ (tx' # tx) => rooms'[r].status = rooms[r].status]_vars

\* a join_room has committed on a room whose status had been moved away from
\* Waiting after the call read it
C16_Witness ==
  \E p \in Procs :
    /\ HasReturned(tx[p], "join_room", JoinRoomResult.Ok)
    /\ rooms[tx[p].room_id].status # Waiting
    /\ rooms[tx[p].room_id].joined_user_count >= 2

\* the room a step of process p works on
RoomOf(p) == IF tx[p].room_id # 0 THEN tx[p].room_id ELSE tx'[p].room_id

\* C17: a step of join_room or create_room on room A leaves the
\* joined_user_count and the membership rows of every other room unchanged,
\* also when joins on A and on another room are interleaved.
C17_RoomsIndependent ==
  [][\A p \in Procs :
       (tx'[p] # tx[p])
       => \A b \in DOMAIN rooms \ {RoomOf(p)} :
            /\ b \in DOMAIN rooms'
            /\ rooms'[b] = rooms[b]
            /\ RowsOfRoom(members', b) = RowsOfRoom(members, b)]_vars

\* a join_room has committed on one room while a join_room on another room
\* holds uncommitted writes
C17_Witness ==
  \E p, q \in Procs :
    /\ HasReturned(tx[p], "join_room", JoinRoomResult.Ok)
    /\ tx[q].pc = "commit" /\ tx[q].op = "join_room"
    /\ tx[q].room_id # tx[p].room_id
    /\ rooms[tx[q].room_id].joined_user_count
         # rooms[tx[p].room_id].joined_user_count

\* C18: membership rows are only added and never changed, and a room's
\* joined_user_count never decreases from one committed state to the next.
C18_Monotone ==
  [][/\ members \sqsubseteq members'
     /\ \A r \in DOMAIN rooms :
          /\ r \in DOMAIN rooms'
          /\ rooms'[r].joined_user_count >= rooms[r].joined_user_count]_vars

\* what C20 says of one step
C20_Step ==
  \A p \in Procs :
    /\ (JoinCalled(p) /\ tx'[p].pc = "join")
         => LET room == get_room_info_from_id(tx'[p].room_id)
            IN  room # None /\ room.joined_user_count < room.max_user_count
    /\ (JoinCalled(p) /\ tx'[p].pc = "done" /\ tx'[p].result.kind = "return")
         => LET room == get_room_info_from_id(tx'[p].room_id)
            IN  /\ tx'[p].result.value = JoinRoomResult.RoomFull
                /\ room # None
                /\ room.joined_user_count >= room.max_user_count
    /\ (Committed(p) /\ tx[p].op = "join_room")
         => /\ tx'[p].result.value = JoinRoomResult.Ok
            /\ tx[p].view.joined_user_count < tx[p].view.max_user_count
    /\ (tx'[p].pc = "done" /\ tx'[p].op = "join_room"
          /\ tx'[p].result.kind = "return")
         => tx'[p].result.value \in {JoinRoomResult.Ok, JoinRoomResult.RoomFull}

\* C20: join_room never returns Disbanded or OtherError: every join_room that
\* returns a value returns Ok when the joined_user_count it read is below
\* max_user_count and RoomFull otherwise.
C20_OnlyOkOrRoomFull == [][C20_Step]_vars

\* a join_room that read a counter below the capacity has returned Ok on a
\* room that overlapping joins had already filled beyond it
C20_Witness ==
  \E p \in Procs :
    /\ HasReturned(tx[p], "join_room", JoinRoomResult.Ok)
    /\ CountRows(members, tx[p].room_id) > rooms[tx[p].room_id].max_user_count

\* process p is inside a call that holds a transaction
Started(p) == tx[p].pc \in {"join", "commit"}

\* C19: under fair scheduling every call that has started completes (by a
\* value or by an exception); in particular concurrent joins of one room do
\* not block each other for ever.
C19_CallsComplete ==
  \A p \in Procs : Started(p) ~> (tx[p].pc = "done")

\* a join_room waits for the row lock another join_room holds
C19_Witness ==
  \E p \in Procs :
    /\ tx[p].pc = "join" /\ tx[p].op = "join_room"
    /\ RowLocked(p, tx[p].room_id)

====
